---- MODULE Spec2Model ----
(***************************************************************************)
(* Model of the planning core of AI_EMERGENCY_RESPONSE:                    *)
(*   module3_planning/planning_domain.py  (ground STRIPS domain for ACC3)  *)
(*   module3_planning/graphplan.py        (relaxed planning graph and the  *)
(*                                         backward linear-plan extractor) *)
(*   module3_planning/pop_planner.py      (partial-order plan with causal  *)
(*                                         links and contingency branches) *)
(*   module4_rl/env.py                    (EmergencyResponseEnv: reset and *)
(*                                         step of the dispatch MDP)       *)
(*                                                                         *)
(* build_plan_graph is modelled one loop iteration per step,               *)
(* extract_linear_plan one working goal per step (the working goal set is  *)
(* a Python set of strings, so the order in which `for g in current_goals` *)
(* visits it is not fixed by the program: every order is explored).        *)
(*                                                                         *)
(* Python lists are 0-based; the layers are kept as TLA+ sequences and     *)
(* read through PL(i) / AL(i), which take the Python index.                *)
(***************************************************************************)
EXTENDS Integers, Sequences, FiniteSets, TLC

VARIABLES
    scenario,           \* snapshot returned by create_base_scenario
    initial_state,      \* build_plan_graph argument: set of propositions
    actions,            \* build_plan_graph argument: list of Action records
    goals,              \* build_plan_graph / extract_linear_plan argument
    max_levels,         \* build_plan_graph argument
    proposition_layers, \* PlanGraph.proposition_layers
    action_layers,      \* PlanGraph.action_layers
    level,              \* loop variable of the running function
    goal_layer_index,   \* index returned by build_plan_graph (0 until it returns)
    pc,                 \* "domain" | "notfound" | "build" | "error" |
                        \* "returned" | "extract" | "done" |
                        \* "pop" | "planned" | "running" | "finished" |
                        \* "env" (the environment is in use)
    chosen_actions,     \* extract_linear_plan working list
    chosen_levels,      \* value of `level` when each entry of the working list
                        \* was appended (history of the loop variable)
    current_goals,      \* extract_linear_plan working goal set
    new_subgoals,       \* subgoals collected during the current level
    todo,               \* goals of the current level not yet visited by the for loop
    final_plan,         \* list returned by extract_linear_plan
    plan,               \* POPPlan built by build_pop_plan_for_acc3
    branch,             \* index of the contingency branch taken at run time (0: none yet)
    executed,           \* ids of the POP actions run so far, in the order they ran
    world,              \* propositions true after the actions run so far
    env,                \* fields of the EmergencyResponseEnv object
    before,             \* <<fields>> as they were when the last step() was
                        \* called, <<>> when none was since the last reset
    action              \* <<a>> for the argument a of the last step() call,
                        \* <<>> when no step() was called since the last reset

vars == <<scenario, initial_state, actions, goals, max_levels,
          proposition_layers, action_layers, level, goal_layer_index, pc,
          chosen_actions, current_goals, new_subgoals, todo, final_plan,
          plan, branch, executed, world, chosen_levels, env, before, action>>

\* the arguments of build_plan_graph together with the snapshot they come from
inputs == <<scenario, initial_state, actions, goals, max_levels>>

\* the reinforcement-learning environment and the last call made on it
envvars == <<env, before, action>>

\* no environment has been constructed
NoEnv ==
    /\ env = <<>>
    /\ before = <<>>
    /\ action = <<>>

\* the partial-order plan and the state of its execution
popvars == <<plan, branch, executed, world>>

\* POPPlan() (pop_planner.py lines 17-22): every collection empty
EmptyPlan == [actions |-> <<>>, orderings |-> <<>>, causal_links |-> <<>>,
              branches |-> <<>>]

\* no partial-order plan has been built
NoPop ==
    /\ plan = EmptyPlan
    /\ branch = 0
    /\ executed = <<>>
    /\ world = {}

(***************************************************************************)
(* Bounds of the generic (arbitrary-domain) specifications.                *)
(***************************************************************************)
MaxPre == 2        \* largest precondition set of a generated action
MaxAdd == 2        \* largest add-effect set of a generated action
MaxLevels == 2     \* largest max_levels argument tried by SpecGraph
MaxGoals == 2      \* largest goal set tried on the ACC3 domain by SpecPlan

\* max_levels default of build_plan_graph, also passed by compute_strict_plan_for_acc3
DefaultMaxLevels == 8

\* proposition universe and action names of the generated domains
PropOrder == <<"p1", "p2", "p3">>
Props == {PropOrder[i] : i \in 1..Len(PropOrder)}
ActionNames == <<"act1", "act2">>

(***************************************************************************)
(* planning_domain.py: Action dataclass                                    *)
(***************************************************************************)
Action(n, pre, add, del) ==
    [name |-> n, preconditions |-> pre, add_effects |-> add, del_effects |-> del]

(***************************************************************************)
(* Generic helpers                                                         *)
(***************************************************************************)
\* chosen_actions.reverse()
Reverse(s) == [i \in 1..Len(s) |-> s[Len(s) + 1 - i]]

Range(s) == {s[i] : i \in 1..Len(s)}

\* Python-indexed reads of the layers
PL(i) == proposition_layers[i + 1]
AL(i) == action_layers[i + 1]

(***************************************************************************)
(* graphplan.py: build_plan_graph                                          *)
(***************************************************************************)
RECURSIVE ApplicableActionsAnyPre(_, _)
\* mutant: one precondition in current_props is taken to be enough
ApplicableActionsAnyPre(acts, current_props) ==
    IF acts = <<>> THEN <<>>
    ELSE IF \/ Head(acts).preconditions = {}
            \/ Head(acts).preconditions \cap current_props # {}
         THEN <<Head(acts)>> \o ApplicableActionsAnyPre(Tail(acts), current_props)
         ELSE ApplicableActionsAnyPre(Tail(acts), current_props)

RECURSIVE ApplicableActions(_, _)
\* lines 36-39: the actions whose preconditions are in current_props, in list order
ApplicableActions(acts, current_props) ==
    IF acts = <<>> THEN <<>>
    ELSE IF Head(acts).preconditions \subseteq current_props
         THEN <<Head(acts)>> \o ApplicableActions(Tail(acts), current_props)
         ELSE ApplicableActions(Tail(acts), current_props)

\* mutant: the next layer is started empty instead of as a copy of the current one
NextPropsNoCarry(current_props, applicable) ==
    UNION {a.add_effects : a \in Range(applicable)}

\* mutant: the delete effects of the applicable actions are applied
NextPropsApplyDeletes(current_props, applicable) ==
    (current_props \ UNION {a.del_effects : a \in Range(applicable)})
        \cup UNION {a.add_effects : a \in Range(applicable)}

\* lines 44-46: next_props = set(current_props); next_props |= act.add_effects
NextProps(current_props, applicable) ==
    current_props \cup UNION {a.add_effects : a \in Range(applicable)}

\* mutant: one goal in the layer is taken to be enough (any for all)
GoalsReachedAny(gs, next_props) == gs = {} \/ gs \cap next_props # {}

\* mutant: the goal test is skipped in the first iteration
GoalsReachedSkipFirst(gs, next_props) == gs \subseteq next_props /\ level >= 1

\* mutant: success is reported only once the level budget is used up
GoalsReachedAtBudget(gs, next_props) ==
    gs \subseteq next_props /\ level + 1 = max_levels

\* line 51: goals.issubset(next_props)
GoalsReached(gs, next_props) == gs \subseteq next_props

\* State at the entry of build_plan_graph (lines 29-30), extractor not started.
BuildEntry ==
    /\ proposition_layers = <<initial_state>>
    /\ action_layers = <<>>
    /\ level = 0
    /\ goal_layer_index = 0
    /\ pc = "build"
    /\ chosen_actions = <<>>
    /\ chosen_levels = <<>>
    /\ current_goals = {}
    /\ new_subgoals = {}
    /\ todo = {}
    /\ final_plan = <<>>
    /\ NoPop
    /\ NoEnv

\* mutant: the loop index is returned instead of the index of the new layer
ExpandLevelReturnsLevel ==
    /\ pc = "build"
    /\ level < max_levels
    /\ LET current_props == proposition_layers[Len(proposition_layers)]
           applicable_actions == ApplicableActions(actions, current_props)
           next_props == NextProps(current_props, applicable_actions)
       IN /\ action_layers' = Append(action_layers, applicable_actions)
          /\ proposition_layers' = Append(proposition_layers, next_props)
          /\ IF GoalsReached(goals, next_props)
             THEN /\ pc' = "returned"
                  /\ goal_layer_index' = level
                  /\ level' = level
             ELSE /\ pc' = "build"
                  /\ goal_layer_index' = goal_layer_index
                  /\ level' = level + 1
    /\ UNCHANGED <<envvars, chosen_levels, popvars, inputs, chosen_actions,
                   current_goals, new_subgoals, todo, final_plan>>

\* One iteration of `for level in range(max_levels)` (lines 32-52).
ExpandLevel ==
    /\ pc = "build"
    /\ level < max_levels
    /\ LET current_props == proposition_layers[Len(proposition_layers)]
           applicable_actions == ApplicableActions(actions, current_props)
           next_props == NextProps(current_props, applicable_actions)
       IN /\ action_layers' = Append(action_layers, applicable_actions)
          /\ proposition_layers' = Append(proposition_layers, next_props)
          /\ IF GoalsReached(goals, next_props)
             THEN /\ pc' = "returned"
                  /\ goal_layer_index' = level + 1
                  /\ level' = level
             ELSE /\ pc' = "build"
                  /\ goal_layer_index' = goal_layer_index
                  /\ level' = level + 1
    /\ UNCHANGED <<envvars, chosen_levels, popvars, inputs, chosen_actions,
                   current_goals, new_subgoals, todo, final_plan>>

\* The loop is exhausted: raise ValueError (line 54).
RaiseNotReachable ==
    /\ pc = "build"
    /\ level >= max_levels
    /\ pc' = "error"
    /\ UNCHANGED <<envvars, chosen_levels, popvars, inputs, proposition_layers,
                   action_layers, level, goal_layer_index, chosen_actions,
                   current_goals, new_subgoals, todo, final_plan>>

(***************************************************************************)
(* graphplan.py: extract_linear_plan                                       *)
(***************************************************************************)
RECURSIVE Supporters(_, _)
\* lines 87-90 without the break: the actions of the layer that add g, in order
Supporters(actions_at_prev, g) ==
    IF actions_at_prev = <<>> THEN <<>>
    ELSE IF g \in Head(actions_at_prev).add_effects
         THEN <<Head(actions_at_prev)>> \o Supporters(Tail(actions_at_prev), g)
         ELSE Supporters(Tail(actions_at_prev), g)

\* mutant: the break is missing, the last action that adds g is kept
SupporterLast(actions_at_prev, g) ==
    LET s == Supporters(actions_at_prev, g)
    IN IF s = <<>> THEN <<>> ELSE <<s[Len(s)]>>

\* lines 86-90: the first action of the layer that adds g, as a list of
\* length one; <<>> stands for supporter = None
Supporter(actions_at_prev, g) ==
    LET s == Supporters(actions_at_prev, g)
    IN IF s = <<>> THEN <<>> ELSE <<Head(s)>>

RECURSIVE DedupKeepLast(_, _)
\* mutant: an action is kept at its last position instead of its first
DedupKeepLast(s, seen) ==
    IF s = <<>> THEN <<>>
    ELSE IF \E i \in 2..Len(s) : s[i].name = Head(s).name
         THEN DedupKeepLast(Tail(s), seen)
         ELSE <<Head(s)>> \o DedupKeepLast(Tail(s), seen)

RECURSIVE DedupFrom(_, _)
\* lines 103-108: keep an action only if its name has not been seen yet
DedupFrom(s, seen) ==
    IF s = <<>> THEN <<>>
    ELSE IF Head(s).name \in seen
         THEN DedupFrom(Tail(s), seen)
         ELSE <<Head(s)>> \o DedupFrom(Tail(s), seen \cup {Head(s).name})

\* mutant: the working list is not reversed
FinalPlanNoReverse(chosen) == DedupFrom(chosen, {})

\* mutant: duplicates are not removed
FinalPlanNoDedup(chosen) == Reverse(chosen)

\* mutant: the supporter's preconditions are not made subgoals
NewSubgoalsDropped(subgoals, supporter) == subgoals

\* line 97: new_subgoals |= supporter.preconditions
NewSubgoals(subgoals, supporter) == subgoals \cup supporter.preconditions

\* lines 102-110: reverse into forward order, then remove duplicates
FinalPlan(chosen) == DedupFrom(Reverse(chosen), {})

\* compute_strict_plan_for_acc3 line 120 / extract_linear_plan lines 71-77:
\* the extractor is entered with the graph, index and goals of the build.
BeginExtract ==
    /\ pc = "returned"
    /\ pc' = "extract"
    /\ chosen_actions' = <<>>
    /\ chosen_levels' = <<>>
    /\ current_goals' = goals
    /\ level' = goal_layer_index
    /\ new_subgoals' = {}
    /\ todo' = goals
    /\ UNCHANGED <<envvars, popvars, inputs, proposition_layers,
                   action_layers, goal_layer_index, final_plan>>

\* One iteration of `for g in current_goals` (lines 81-97); the set is
\* visited in an order the program does not fix.
ProcessGoal ==
    /\ pc = "extract"
    /\ level > 0
    /\ \E g \in todo :
         /\ todo' = todo \ {g}
         /\ IF g \in PL(level - 1)
            THEN UNCHANGED <<chosen_actions, chosen_levels, new_subgoals>>
            ELSE LET supporter == Supporter(AL(level - 1), g)
                 IN IF supporter = <<>>
                    THEN UNCHANGED <<chosen_actions, chosen_levels, new_subgoals>>
                    ELSE /\ chosen_actions' = chosen_actions \o supporter
                         /\ chosen_levels' = Append(chosen_levels, level)
                         /\ new_subgoals' = NewSubgoals(new_subgoals, supporter[1])
    /\ UNCHANGED <<envvars, popvars, inputs, proposition_layers,
                   action_layers, level, goal_layer_index, pc, current_goals,
                   final_plan>>

\* End of the inner loop: line 99, then the next value of
\* `range(goal_layer_index, 0, -1)`; after the last level lines 101-110.
EndLevel ==
    /\ pc = "extract"
    /\ level > 0
    /\ todo = {}
    /\ current_goals' = current_goals \cup new_subgoals
    /\ level' = level - 1
    /\ new_subgoals' = {}
    /\ IF level - 1 > 0
       THEN /\ todo' = current_goals \cup new_subgoals
            /\ pc' = "extract"
            /\ final_plan' = final_plan
       ELSE /\ todo' = {}
            /\ pc' = "done"
            /\ final_plan' = FinalPlan(chosen_actions)
    /\ UNCHANGED <<envvars, chosen_levels, popvars, inputs, proposition_layers,
                   action_layers, goal_layer_index, chosen_actions>>

(***************************************************************************)
(* common/scenario.py: create_base_scenario (the fields the planner reads) *)
(***************************************************************************)
\* constants.py HospitalCTStatus
CT_AVAILABLE == "available"
CT_OFFLINE == "offline"

Hospital(id, node, trauma, ct) ==
    [id |-> id, node |-> node, is_trauma_center |-> trauma, ct_status |-> ct]
Ambulance(id, node) == [id |-> id, current_node |-> node, is_available |-> TRUE]
Accident(id, node) == [id |-> id, location_node |-> node]

\* the snapshot with H2's CT status left as a parameter
ScenarioWith(h2_ct_status) ==
    [hospitals |-> << Hospital("H1", "hospital_h1", TRUE, CT_AVAILABLE),
                      Hospital("H2", "hospital_h2", FALSE, h2_ct_status) >>,
     ambulances |-> << Ambulance("A1", "hospital_h1"),
                       Ambulance("A2", "hospital_h2") >>,
     accidents |-> << Accident("ACC1", "jaydev_vihar_flyover"),
                      Accident("ACC2", "rupali_square"),
                      Accident("ACC3", "airport_approach") >>]

\* create_base_scenario: H2's CT is offline
create_base_scenario == ScenarioWith(CT_OFFLINE)

RECURSIVE WithoutIds(_, _)
\* the collection with the objects of the given ids left out
WithoutIds(objects, ids) ==
    IF objects = <<>> THEN <<>>
    ELSE IF Head(objects).id \in ids THEN WithoutIds(Tail(objects), ids)
         ELSE <<Head(objects)>> \o WithoutIds(Tail(objects), ids)

\* the ids build_domain_for_acc3 looks up (planning_domain.py lines 46-49)
ReferencedIds == {"H1", "H2", "A1", "ACC3"}

\* the snapshots tried: H2's CT offline or available, any of the referenced
\* objects absent from its collection
Snapshots ==
    {[hospitals |-> WithoutIds(ScenarioWith(ct).hospitals, missing),
      ambulances |-> WithoutIds(ScenarioWith(ct).ambulances, missing),
      accidents |-> WithoutIds(ScenarioWith(ct).accidents, missing)] :
        ct \in {CT_OFFLINE, CT_AVAILABLE}, missing \in SUBSET ReferencedIds}

\* no snapshot: the planner functions are called directly on a given domain
NoScenario == [hospitals |-> <<>>, ambulances |-> <<>>, accidents |-> <<>>]

(***************************************************************************)
(* planning_domain.py: build_domain_for_acc3                               *)
(***************************************************************************)
RECURSIVE FindByIdLastScanned(_, _)
\* mutant: no raise after the loop, the last object scanned is returned
FindByIdLastScanned(objects, obj_id) ==
    IF objects = <<>> THEN <<>>
    ELSE IF Head(objects).id = obj_id \/ Tail(objects) = <<>> THEN <<Head(objects)>>
         ELSE FindByIdLastScanned(Tail(objects), obj_id)

RECURSIVE FindById(_, _)
\* _find_by_id: the first object with that id, as a list of length one;
\* <<>> stands for the ValueError
FindById(objects, obj_id) ==
    IF objects = <<>> THEN <<>>
    ELSE IF Head(objects).id = obj_id THEN <<Head(objects)>>
         ELSE FindById(Tail(objects), obj_id)

\* f"Name({x})" and f"Name({x}, {y})"
P1(n, x) == n \o "(" \o x \o ")"
P2(n, x, y) == n \o "(" \o x \o ", " \o y \o ")"
P3(n, x, y, z) == n \o "(" \o x \o ", " \o y \o ", " \o z \o ")"

hotspot_node == "nayapalli_chowk"

\* lines 54-82
DomainInitialState(h1, h2, a1, acc3) ==
    { P1("AmbulanceFree", a1.id),
      P2("AmbulanceAt", a1.id, a1.current_node),
      P1("AccidentReported", acc3.id),
      P1("AccidentHighRisk", acc3.id),
      P1("AccidentNotServed", acc3.id),
      P1("Hospital", h1.id),
      P1("Hospital", h2.id),
      P1("TraumaCenter", h1.id),
      P1("CTAvailable", h1.id),
      IF h2.ct_status = CT_OFFLINE THEN P1("CTOffline", h2.id)
                                   ELSE P1("CTAvailable", h2.id),
      "RainyConditions",
      "StadiumTrafficLikely",
      "ControlRoomOperational" }

\* lines 90-104
TriggerDroneRecon(acc3) ==
    Action(P1("TriggerDroneRecon", acc3.id),
           {"ControlRoomOperational", P1("AccidentReported", acc3.id)},
           {P1("DroneReconDone", acc3.id), P1("AccidentLocationConfirmed", acc3.id)},
           {})

\* lines 106-119
RequestTrafficDiversion ==
    Action("RequestTrafficDiversion(stadium_corridor)",
           {"ControlRoomOperational", "StadiumTrafficLikely"},
           {"TrafficDiverted(stadium_corridor)"},
           {})

\* mutant: the pre-deployment also deletes AmbulanceFree
PreDeployDeletesFree(a1) ==
    Action(P2("PreDeployAmbulanceNearHotspot", a1.id, hotspot_node),
           {P1("AmbulanceFree", a1.id), P2("AmbulanceAt", a1.id, a1.current_node)},
           {P2("AmbulanceAt", a1.id, hotspot_node), P1("AmbulancePredeployed", a1.id)},
           {P2("AmbulanceAt", a1.id, a1.current_node), P1("AmbulanceFree", a1.id)})

\* lines 121-138
PreDeployAmbulanceNearHotspot(a1) ==
    Action(P2("PreDeployAmbulanceNearHotspot", a1.id, hotspot_node),
           {P1("AmbulanceFree", a1.id), P2("AmbulanceAt", a1.id, a1.current_node)},
           {P2("AmbulanceAt", a1.id, hotspot_node), P1("AmbulancePredeployed", a1.id)},
           {P2("AmbulanceAt", a1.id, a1.current_node)})

\* lines 140-154
NotifyHospital(h1, acc3) ==
    Action(P1("NotifyHospital", h1.id),
           {"ControlRoomOperational", P1("AccidentHighRisk", acc3.id),
            P1("Hospital", h1.id)},
           {P1("HospitalNotified", h1.id)},
           {})

\* lines 156-174
StartTransportToAccident(a1, acc3) ==
    Action(P2("StartTransportToAccident", a1.id, acc3.id),
           {P1("AmbulanceFree", a1.id), P2("AmbulanceAt", a1.id, hotspot_node),
            P1("AccidentLocationConfirmed", acc3.id),
            "TrafficDiverted(stadium_corridor)"},
           {P2("AmbulanceEnRoute", a1.id, acc3.id), P1("AmbulanceBusy", a1.id)},
           {P1("AmbulanceFree", a1.id)})

\* lines 176-196
DeliverPatientToH1(a1, acc3, h1) ==
    Action(P3("DeliverPatientToH1", a1.id, acc3.id, h1.id),
           {P2("AmbulanceEnRoute", a1.id, acc3.id), P1("HospitalNotified", h1.id)},
           {P2("PatientAt", acc3.id, h1.id), P1("AccidentServed", acc3.id),
            P1("AmbulanceFree", a1.id), P2("AmbulanceAt", a1.id, h1.node)},
           {P1("AccidentNotServed", acc3.id), P2("AmbulanceEnRoute", a1.id, acc3.id),
            P1("AmbulanceBusy", a1.id)})

\* lines 198-217
RerouteMidJourneyToH2(a1, acc3, h2) ==
    Action(P3("RerouteMidJourneyToH2", a1.id, acc3.id, h2.id),
           {P2("AmbulanceEnRoute", a1.id, acc3.id), P1("CTAvailable", h2.id)},
           {P2("PatientAt", acc3.id, h2.id), P1("AccidentServed", acc3.id),
            P1("AmbulanceFree", a1.id)},
           {P1("AccidentNotServed", acc3.id), P2("AmbulanceEnRoute", a1.id, acc3.id),
            P1("AmbulanceBusy", a1.id)})

\* mutant: the reroute action is appended before the delivery action
DomainActionsRerouteFirst(h1, h2, a1, acc3) ==
    << TriggerDroneRecon(acc3),
       RequestTrafficDiversion,
       PreDeployAmbulanceNearHotspot(a1),
       NotifyHospital(h1, acc3),
       StartTransportToAccident(a1, acc3),
       RerouteMidJourneyToH2(a1, acc3, h2),
       DeliverPatientToH1(a1, acc3, h1) >>

\* lines 88-217: the action list, in append order
DomainActions(h1, h2, a1, acc3) ==
    << TriggerDroneRecon(acc3),
       RequestTrafficDiversion,
       PreDeployAmbulanceNearHotspot(a1),
       NotifyHospital(h1, acc3),
       StartTransportToAccident(a1, acc3),
       DeliverPatientToH1(a1, acc3, h1),
       RerouteMidJourneyToH2(a1, acc3, h2) >>

\* lines 223-226
DomainGoals(h1, acc3) ==
    {P1("AccidentServed", acc3.id), P2("PatientAt", acc3.id, h1.id)}

\* build_domain_for_acc3 on a snapshot: the (initial_state, actions, goal_state)
\* triple as a list of length one; <<>> stands for the ValueError of _find_by_id
build_domain_for_acc3(sc) ==
    LET h1 == FindById(sc.hospitals, "H1")
        h2 == FindById(sc.hospitals, "H2")
        a1 == FindById(sc.ambulances, "A1")
        acc3 == FindById(sc.accidents, "ACC3")
    IN IF h1 = <<>> \/ h2 = <<>> \/ a1 = <<>> \/ acc3 = <<>>
       THEN <<>>
       ELSE << [initial_state |-> DomainInitialState(h1[1], h2[1], a1[1], acc3[1]),
                actions |-> DomainActions(h1[1], h2[1], a1[1], acc3[1]),
                goal_state |-> DomainGoals(h1[1], acc3[1])] >>

\* compute_strict_plan_for_acc3 lines 118-119: build the domain and enter
\* build_plan_graph (graphplan.py lines 29-30)
BuildDomain ==
    /\ pc = "domain"
    /\ LET d == build_domain_for_acc3(scenario)
       IN IF d = <<>>
          THEN /\ pc' = "notfound"
               /\ UNCHANGED <<initial_state, actions, goals, max_levels,
                              proposition_layers>>
          ELSE /\ pc' = "build"
               /\ initial_state' = d[1].initial_state
               /\ actions' = d[1].actions
               /\ goals' = d[1].goal_state
               /\ max_levels' = max_levels
               /\ proposition_layers' = <<d[1].initial_state>>
    /\ UNCHANGED <<envvars, chosen_levels, popvars, scenario, action_layers, level, goal_layer_index,
                   chosen_actions, current_goals, new_subgoals, todo, final_plan>>

(***************************************************************************)
(* Inputs of the generic specifications                                    *)
(***************************************************************************)
BoundedSubsets(S, n) == {x \in SUBSET S : Cardinality(x) <= n}

\* every list of Len(ActionNames) actions with distinct names over Props,
\* all of them declaring the delete effects del
ActionLists(del) ==
    LET Bodies == [preconditions : BoundedSubsets(Props, MaxPre),
                   add_effects : BoundedSubsets(Props, MaxAdd)]
    IN {[i \in 1..Len(ActionNames) |->
            Action(ActionNames[i], f[i].preconditions, f[i].add_effects, del)] :
                f \in [1..Len(ActionNames) -> Bodies]}

\* the initial states up to a renaming of the propositions: the action lists
\* and goal sets range over sets closed under renaming
InitialStates == {{PropOrder[i] : i \in 1..k} : k \in 0..Len(PropOrder)}

\* build_plan_graph called on an arbitrary small domain
InitGraph ==
    /\ scenario = NoScenario
    /\ initial_state \in InitialStates
    /\ actions \in ActionLists({}) \cup ActionLists(Props)
    /\ goals \in SUBSET Props
    /\ max_levels \in 0..MaxLevels
    /\ BuildEntry

NextGraph == ExpandLevel \/ RaiseNotReachable

SpecGraph == InitGraph /\ [][NextGraph]_vars

\* build_plan_graph called with every level budget on an arbitrary small
\* domain, and with every budget up to the default one on the ACC3 domain
\* with its own goals
InitBudget ==
    /\ \/ /\ scenario = NoScenario
          /\ initial_state \in InitialStates
          /\ actions \in ActionLists({})
          /\ goals \in SUBSET Props
          /\ max_levels \in 0..MaxLevels
       \/ /\ scenario \in {ScenarioWith(ct) : ct \in {CT_OFFLINE, CT_AVAILABLE}}
          /\ initial_state = build_domain_for_acc3(scenario)[1].initial_state
          /\ actions = build_domain_for_acc3(scenario)[1].actions
          /\ goals = build_domain_for_acc3(scenario)[1].goal_state
          /\ max_levels \in 0..DefaultMaxLevels
    /\ BuildEntry

SpecBudget == InitBudget /\ [][NextGraph]_vars

\* the propositions some action of the list adds
AddedProps(acts) == UNION {acts[i].add_effects : i \in 1..Len(acts)}

\* build_plan_graph with the default max_levels followed by extract_linear_plan,
\* on an arbitrary small domain or on the ACC3 domain (seven actions, three
\* levels deep) with any goal set of at most MaxGoals added propositions
InitPlan ==
    /\ \/ /\ scenario = NoScenario
          /\ initial_state \in InitialStates
          /\ actions \in ActionLists({})
          /\ goals \in SUBSET Props
       \/ /\ scenario \in {ScenarioWith(ct) : ct \in {CT_OFFLINE, CT_AVAILABLE}}
          /\ initial_state = build_domain_for_acc3(scenario)[1].initial_state
          /\ actions = build_domain_for_acc3(scenario)[1].actions
          /\ goals \in BoundedSubsets(AddedProps(actions), MaxGoals)
    /\ max_levels = DefaultMaxLevels
    /\ BuildEntry

NextPlan ==
    \/ ExpandLevel
    \/ RaiseNotReachable
    \/ BeginExtract
    \/ ProcessGoal
    \/ EndLevel

SpecPlan == InitPlan /\ [][NextPlan]_vars

(***************************************************************************)
(* compute_strict_plan_for_acc3 on the canonical snapshot, with H2's CT    *)
(* either offline (create_base_scenario) or available, and on snapshots    *)
(* from which referenced objects are missing.                              *)
(* compute_strict_plan_for_acc3 passes max_levels=8; the smaller budgets   *)
(* are build_plan_graph called on the same domain with another max_levels. *)
(***************************************************************************)
InitAcc3 ==
    /\ scenario \in Snapshots
    /\ initial_state = {}
    /\ actions = <<>>
    /\ goals = {}
    /\ max_levels \in 0..DefaultMaxLevels
    /\ proposition_layers = <<>>
    /\ action_layers = <<>>
    /\ level = 0
    /\ goal_layer_index = 0
    /\ pc = "domain"
    /\ chosen_actions = <<>>
    /\ chosen_levels = <<>>
    /\ current_goals = {}
    /\ new_subgoals = {}
    /\ todo = {}
    /\ final_plan = <<>>
    /\ NoPop
    /\ NoEnv

NextAcc3 ==
    \/ BuildDomain
    \/ ExpandLevel
    \/ RaiseNotReachable
    \/ BeginExtract
    \/ ProcessGoal
    \/ EndLevel

SpecAcc3 == InitAcc3 /\ [][NextAcc3]_vars

(***************************************************************************)
(* pop_planner.py: build_pop_plan_for_acc3                                 *)
(*                                                                         *)
(* plan.actions is a dict (insertion-ordered) keyed by id: it is kept as   *)
(* the list of its values in insertion order.  The causal links are        *)
(* appended while iterating over precondition SETS, so the order of the    *)
(* links appended by one loop is not fixed by the program: every order is  *)
(* a possible plan.  The description text of a branch is left out.         *)
(***************************************************************************)

\* POPAction dataclass (lines 9-14)
POPAction(id, name, preconditions, effects) ==
    [id |-> id, name |-> name, preconditions |-> preconditions,
     effects |-> effects]

\* str.startswith (line 61)
StartsWith(s, prefix) ==
    /\ Len(prefix) <= Len(s)
    /\ SubSeq(s, 1, Len(prefix)) = prefix

\* `sub in s` on strings (lines 126-150)
Contains(sub, s) ==
    \E i \in 1..(Len(s) - Len(sub) + 1) : SubSeq(s, i, i + Len(sub) - 1) = sub

\* find_da (lines 59-63): the first domain action whose name starts with the
\* prefix, as a list of length one; <<>> stands for its ValueError
find_da(domain_actions, prefix) ==
    LET hits == {i \in 1..Len(domain_actions) :
                    StartsWith(domain_actions[i].name, prefix)}
    IN IF hits = {} THEN <<>>
       ELSE <<domain_actions[CHOOSE i \in hits : \A j \in hits : i <= j]>>

\* wrap (lines 74-80): the delete effects are not carried over
wrap(da, id_suffix) ==
    POPAction(id_suffix, da.name, da.preconditions, da.add_effects)

\* lines 43-48
PopStart(dom) == POPAction("Start", "Start", {}, dom.initial_state)

\* mutant: Finish requires nothing
PopFinishNoGoals(dom) == POPAction("Finish", "Finish", {}, {})

\* lines 49-54
PopFinish(dom) == POPAction("Finish", "Finish", dom.goal_state, {})

\* lines 65-71 and 82-88: the prefix looked up and the id given to its action,
\* in the order of the list of line 90
WrappedPrefixes ==
    << <<"TriggerDroneRecon", "DroneRecon">>,
       <<"PreDeployAmbulanceNearHotspot", "PredeployA1">>,
       <<"NotifyHospital", "NotifyH1">>,
       <<"RequestTrafficDiversion", "RequestDiversion">>,
       <<"StartTransportToAccident", "StartTransport">>,
       <<"DeliverPatientToH1", "DeliverH1">>,
       <<"RerouteMidJourneyToH2", "RerouteH2">> >>

\* every prefix of lines 65-71 names a domain action
AllFound(dom) ==
    \A k \in 1..Len(WrappedPrefixes) :
        find_da(dom.actions, WrappedPrefixes[k][1]) # <<>>

\* plan.actions after line 91: Start, Finish, then the seven wrapped actions
PopActions(dom) ==
    <<PopStart(dom), PopFinish(dom)>> \o
    [k \in 1..Len(WrappedPrefixes) |->
        wrap(find_da(dom.actions, WrappedPrefixes[k][1])[1], WrappedPrefixes[k][2])]

\* plan.actions[id]
ActionById(acts, id) == acts[CHOOSE i \in 1..Len(acts) : acts[i].id = id]

\* the keys of plan.actions
ActionIds(acts) == {acts[i].id : i \in 1..Len(acts)}

\* mutant: the edge from Start is added for Finish only
StartBeforeFinishOnly(acts) == << <<"Start", "Finish">> >>

\* mutant: the edge from Start is added for every key, Start included
StartBeforeEverythingNoTest(acts) ==
    [i \in 1..Len(acts) |-> <<"Start", acts[i].id>>]

\* lines 96-98: ("Start", aid) for every key other than "Start", in key order
StartBeforeEverything(acts) ==
    LET others == SelectSeq(acts, LAMBDA a : a.id # "Start")
    IN [i \in 1..Len(others) |-> <<"Start", others[i].id>>]

\* mutant: the pre-deployment is not ordered before the transport
PreTransportOrderingsNoPredeploy ==
    << <<"DroneRecon", "StartTransport">>,
       <<"RequestDiversion", "StartTransport">> >>

\* lines 101-103
PreTransportOrderings ==
    << <<"DroneRecon", "StartTransport">>,
       <<"PredeployA1", "StartTransport">>,
       <<"RequestDiversion", "StartTransport">> >>

\* mutant: the delivery to H1 is also ordered before the reroute
DestinationOrderingsSequenced ==
    << <<"NotifyH1", "DeliverH1">>,
       <<"StartTransport", "DeliverH1">>,
       <<"StartTransport", "RerouteH2">>,
       <<"DeliverH1", "RerouteH2">>,
       <<"DeliverH1", "Finish">>,
       <<"RerouteH2", "Finish">> >>

\* lines 106-114
DestinationOrderings ==
    << <<"NotifyH1", "DeliverH1">>,
       <<"StartTransport", "DeliverH1">>,
       <<"StartTransport", "RerouteH2">>,
       <<"DeliverH1", "Finish">>,
       <<"RerouteH2", "Finish">> >>

\* plan.orderings after line 114
PopOrderings(acts) ==
    StartBeforeEverything(acts) \o PreTransportOrderings \o DestinationOrderings

\* every list enumerating the set S once (an iteration order of a set)
Enumerations(S) ==
    {s \in [1..Cardinality(S) -> S] : \A x \in S : \E i \in DOMAIN s : s[i] = x}

\* lines 119-122, one action a: a link from Start for every precondition of a
\* that Start provides
StartLinks(acts, id) ==
    {<<"Start", p, id>> :
        p \in ActionById(acts, id).preconditions
              \cap ActionById(acts, "Start").effects}

\* mutant: DroneRecon is linked to every precondition of StartTransport
DroneLinksNoTest(acts) ==
    {<<"DroneRecon", p, "StartTransport">> :
        p \in ActionById(acts, "StartTransport").preconditions}

\* lines 125-127: AccidentLocationConfirmed from DroneRecon to StartTransport
DroneLinks(acts) ==
    {<<"DroneRecon", p, "StartTransport">> :
        p \in {q \in ActionById(acts, "StartTransport").preconditions :
                  Contains("AccidentLocationConfirmed", q)}}

\* lines 130-132: AmbulanceAt(.., nayapalli_chowk) from PredeployA1
PredeployLinks(acts) ==
    {<<"PredeployA1", p, "StartTransport">> :
        p \in {q \in ActionById(acts, "StartTransport").preconditions :
                  Contains("AmbulanceAt", q) /\ Contains("nayapalli_chowk", q)}}

\* lines 135-137: TrafficDiverted(stadium_corridor) from RequestDiversion
DiversionLinks(acts) ==
    {<<"RequestDiversion", p, "StartTransport">> :
        p \in {q \in ActionById(acts, "StartTransport").preconditions :
                  q = "TrafficDiverted(stadium_corridor)"}}

\* lines 140-142: HospitalNotified from NotifyH1 to DeliverH1
NotifyLinks(acts) ==
    {<<"NotifyH1", p, "DeliverH1">> :
        p \in {q \in ActionById(acts, "DeliverH1").preconditions :
                  Contains("HospitalNotified", q)}}

\* lines 145-150, one consumer: AmbulanceEnRoute from StartTransport
EnRouteLinks(acts, consumer) ==
    {<<"StartTransport", p, consumer>> :
        p \in {q \in ActionById(acts, consumer).preconditions :
                  Contains("AmbulanceEnRoute", q)}}

\* every list plan.causal_links can be after line 150: the loops run in
\* program order, each appending its links in the order its set is iterated
PopCausalLinks(acts) ==
    {l1 \o l2 \o l3 \o l4 \o l5 \o l6 \o l7 \o l8 \o l9 \o l10 :
        l1 \in Enumerations(StartLinks(acts, "DroneRecon")),
        l2 \in Enumerations(StartLinks(acts, "PredeployA1")),
        l3 \in Enumerations(StartLinks(acts, "NotifyH1")),
        l4 \in Enumerations(StartLinks(acts, "RequestDiversion")),
        l5 \in Enumerations(DroneLinks(acts)),
        l6 \in Enumerations(PredeployLinks(acts)),
        l7 \in Enumerations(DiversionLinks(acts)),
        l8 \in Enumerations(NotifyLinks(acts)),
        l9 \in Enumerations(EnRouteLinks(acts, "DeliverH1")),
        l10 \in Enumerations(EnRouteLinks(acts, "RerouteH2"))}

\* mutant: the second branch is conditioned on H1's CT being offline
PopBranchesOtherHospital ==
    << [condition |-> "CTAvailable(H2)", actions |-> <<"RerouteH2">>],
       [condition |-> "CTOffline(H1)", actions |-> <<"DeliverH1">>] >>

\* mutant: both branches name the delivery to H1
PopBranchesBothDeliver ==
    << [condition |-> "CTAvailable(H2)", actions |-> <<"RerouteH2", "DeliverH1">>],
       [condition |-> "CTOffline(H2)", actions |-> <<"DeliverH1">>] >>

\* lines 154-164
PopBranches ==
    << [condition |-> "CTAvailable(H2)", actions |-> <<"RerouteH2">>],
       [condition |-> "CTOffline(H2)", actions |-> <<"DeliverH1">>] >>

\* the plans build_pop_plan_for_acc3 can return for a domain
PopPlans(dom) ==
    LET acts == PopActions(dom)
    IN {[actions |-> acts, orderings |-> PopOrderings(acts),
         causal_links |-> links, branches |-> PopBranches] :
            links \in PopCausalLinks(acts)}

\* build_pop_plan_for_acc3 (lines 25-166) on a snapshot.  The ValueError of
\* _find_by_id and that of find_da leave the function without a plan.
BuildPop ==
    /\ pc = "pop"
    /\ LET d == build_domain_for_acc3(scenario)
       IN IF d = <<>>
          THEN /\ pc' = "notfound"
               /\ UNCHANGED <<initial_state, actions, goals, plan>>
          ELSE IF ~AllFound(d[1])
          THEN /\ pc' = "error"
               /\ UNCHANGED <<initial_state, actions, goals, plan>>
          ELSE /\ pc' = "planned"
               /\ initial_state' = d[1].initial_state
               /\ actions' = d[1].actions
               /\ goals' = d[1].goal_state
               /\ plan' \in PopPlans(d[1])
    /\ UNCHANGED <<envvars, scenario, max_levels, proposition_layers, action_layers,
                   level, goal_layer_index, chosen_actions, chosen_levels, current_goals,
                   new_subgoals, todo, final_plan, branch, executed, world>>

(***************************************************************************)
(* Execution of a partial-order plan (spec.md section 5: actions joined by *)
(* an ordering edge are sequenced, actions with no ordering path between   *)
(* them may run in either order, branch actions are alternatives of which  *)
(* one is run).  An action runs only in a state holding its preconditions; *)
(* it removes the delete effects of the domain action it wraps and adds    *)
(* its effects.                                                            *)
(***************************************************************************)

\* the action ids named by the branches other than b
OtherBranchActions(p, b) ==
    UNION {Range(p.branches[k].actions) : k \in DOMAIN p.branches \ {b}}

\* the actions to run when branch b is taken
Active(p, b) == ActionIds(p.actions) \ OtherBranchActions(p, b)

\* a has not run and every action to run that is ordered before a has run
Ready(a) ==
    /\ a \in Active(plan, branch)
    /\ a \notin Range(executed)
    /\ \A i \in 1..Len(plan.orderings) :
          (plan.orderings[i][2] = a /\ plan.orderings[i][1] \in Active(plan, branch))
             => plan.orderings[i][1] \in Range(executed)

\* the delete effects of the domain action a POP action wraps
DelEffects(name) ==
    UNION {actions[i].del_effects :
              i \in {j \in 1..Len(actions) : actions[j].name = name}}

\* the branch decision is taken
ChooseBranch ==
    /\ pc = "planned"
    /\ \E b \in DOMAIN plan.branches : branch' = b
    /\ pc' = "running"
    /\ UNCHANGED <<envvars, inputs, proposition_layers, action_layers, level,
                   goal_layer_index, chosen_actions, chosen_levels, current_goals,
                   new_subgoals, todo, final_plan, plan, executed, world>>

\* one ready action whose preconditions hold runs
Execute ==
    /\ pc = "running"
    /\ \E a \in ActionIds(plan.actions) :
          /\ Ready(a)
          /\ ActionById(plan.actions, a).preconditions \subseteq world
          /\ executed' = Append(executed, a)
          /\ world' = (world \ DelEffects(ActionById(plan.actions, a).name))
                          \cup ActionById(plan.actions, a).effects
          /\ pc' = IF a = "Finish" THEN "finished" ELSE "running"
    /\ UNCHANGED <<envvars, inputs, proposition_layers, action_layers, level,
                   goal_layer_index, chosen_actions, chosen_levels, current_goals,
                   new_subgoals, todo, final_plan, plan, branch>>

\* build_pop_plan_for_acc3 on the canonical snapshot, with H2's CT either
\* offline (create_base_scenario) or available, and on snapshots from which
\* referenced objects are missing; then the plan is run
InitPop ==
    /\ scenario \in Snapshots
    /\ initial_state = {}
    /\ actions = <<>>
    /\ goals = {}
    /\ max_levels = DefaultMaxLevels
    /\ proposition_layers = <<>>
    /\ action_layers = <<>>
    /\ level = 0
    /\ goal_layer_index = 0
    /\ pc = "pop"
    /\ chosen_actions = <<>>
    /\ chosen_levels = <<>>
    /\ current_goals = {}
    /\ new_subgoals = {}
    /\ todo = {}
    /\ final_plan = <<>>
    /\ NoPop
    /\ NoEnv

NextPop ==
    \/ BuildPop
    \/ ChooseBranch
    \/ Execute

SpecPop == InitPop /\ [][NextPop]_vars

(***************************************************************************)
(* module4_rl/env.py: EmergencyResponseEnv                                 *)
(*                                                                         *)
(* Every rng.random() comparison and rng.choice is a choice between the    *)
(* outcomes it can have.  Times are kept in tenths of a minute, so that    *)
(* base * 1.3 is the integer base * 13.  step() is one action: the effect  *)
(* of the action argument, _update_predictions, the time increment and     *)
(* _sample_new_accident_if_none.  The reward it returns is not state and   *)
(* is left out.  step() does not look at max_steps itself; the caller      *)
(* modelled here stops stepping once `done` is returned.                   *)
(***************************************************************************)

\* episode length given to the constructor
MaxSteps == 3

\* lines 12-21
A1_IDLE_H1 == 0
A1_IDLE_STADIUM == 1
A1_IDLE_AIRPORT == 2
A1_BUSY == 3
A2_IDLE_H2 == 0
A2_IDLE_RUPALI == 1
A2_IDLE_AIRPORT == 2
A2_BUSY == 3

\* lines 24-33
ACC_NONE == 0
ACC_JAYDEV == 1
ACC_RUPALI == 2
ACC_AIRPORT == 3
SEV_NONE == 0
SEV_MINOR == 1
SEV_MODERATE == 2
SEV_CRITICAL == 3

\* lines 36-48
HOTSPOT_NONE == 0
HOTSPOT_STADIUM == 1
HOTSPOT_RUPALI == 2
HOTSPOT_AIRPORT == 3
ROAD_NORMAL == 0
ROAD_CONGESTED == 1
HLOAD_BOTH_OK == 0
HLOAD_H1_BUSY == 1
HLOAD_H2_BUSY == 2

\* lines 51-57
ACT_PREPOSITION_STADIUM == 0
ACT_PREPOSITION_AIRPORT == 1
ACT_IMMEDIATE_DISPATCH == 2
ACT_DELAY_DISPATCH == 3
ACT_REROUTE_MID == 4
N_ACTIONS == 5

\* lines 61-65
REGION_H1 == 0
REGION_H2 == 1
REGION_STADIUM == 2
REGION_RUPALI == 3
REGION_AIRPORT == 4

\* lines 69-76, indexed [from_region + 1][to_region + 1]
BASE_TRAVEL_TIME ==
    << <<0, 20, 10, 18, 25>>,
       <<20, 0, 22, 10, 18>>,
       <<10, 22, 0, 8, 20>>,
       <<18, 10, 8, 0, 12>>,
       <<25, 18, 20, 12, 0>> >>

\* lines 79-87; called with an active accident only
accident_location_to_region(acc_loc) ==
    IF acc_loc = ACC_JAYDEV THEN REGION_STADIUM
    ELSE IF acc_loc = ACC_RUPALI THEN REGION_RUPALI
    ELSE REGION_AIRPORT

\* lines 90-101; called with an idle status only
a1_status_to_region(status) ==
    IF status = A1_IDLE_H1 THEN REGION_H1
    ELSE IF status = A1_IDLE_STADIUM THEN REGION_STADIUM
    ELSE REGION_AIRPORT

\* lines 104-114; called with an idle status only
a2_status_to_region(status) ==
    IF status = A2_IDLE_H2 THEN REGION_H2
    ELSE IF status = A2_IDLE_RUPALI THEN REGION_RUPALI
    ELSE REGION_AIRPORT

\* __init__ (lines 126-145)
Constructed(max_steps) ==
    [max_steps |-> max_steps,
     time_step |-> 0,
     a1_status |-> A1_IDLE_H1,
     a2_status |-> A2_IDLE_H2,
     active_acc_loc |-> ACC_NONE,
     active_severity |-> SEV_NONE,
     predicted_hotspot |-> HOTSPOT_STADIUM,
     road_condition |-> ROAD_CONGESTED,
     hospital_load |-> HLOAD_H2_BUSY,
     last_response_time |-> 0,
     total_response_time |-> 0,
     served_accidents |-> 0,
     critical_within_threshold |-> 0,
     critical_total |-> 0]

\* mutant: an accident is sampled even when one is active
SampleOverwrites(e) ==
    {e} \cup
    {[e EXCEPT !.active_acc_loc = loc,
               !.active_severity = sev,
               !.critical_total = IF sev = SEV_CRITICAL THEN @ + 1 ELSE @] :
        loc \in {ACC_JAYDEV, ACC_RUPALI, ACC_AIRPORT},
        sev \in {SEV_MINOR, SEV_MODERATE, SEV_CRITICAL}}

\* _sample_new_accident_if_none (lines 161-213): the objects it can leave.
\* With an accident active nothing changes; otherwise either no accident
\* arrives, or one arrives at any of the three locations (each has a positive
\* probability under every hotspot) with any of the three severities.
sample_new_accident_if_none(e) ==
    IF e.active_acc_loc # ACC_NONE THEN {e}
    ELSE {e} \cup
         {[e EXCEPT !.active_acc_loc = loc,
                    !.active_severity = sev,
                    !.critical_total = IF sev = SEV_CRITICAL THEN @ + 1 ELSE @] :
             loc \in {ACC_JAYDEV, ACC_RUPALI, ACC_AIRPORT},
             sev \in {SEV_MINOR, SEV_MODERATE, SEV_CRITICAL}}

\* _compute_travel_time (lines 225-231), in tenths of a minute
compute_travel_time(e, amb_region, acc_loc) ==
    LET base == BASE_TRAVEL_TIME[amb_region + 1][accident_location_to_region(acc_loc) + 1]
    IN IF e.road_condition = ROAD_CONGESTED THEN base * 13 ELSE base * 10

\* lines 241-251: the (ambulance, time) candidates, A1 first
Candidates(e) ==
    (IF e.a1_status \in {A1_IDLE_H1, A1_IDLE_STADIUM, A1_IDLE_AIRPORT}
     THEN << <<"A1", compute_travel_time(e, a1_status_to_region(e.a1_status),
                                         e.active_acc_loc)>> >>
     ELSE <<>>)
    \o
    (IF e.a2_status \in {A2_IDLE_H2, A2_IDLE_RUPALI, A2_IDLE_AIRPORT}
     THEN << <<"A2", compute_travel_time(e, a2_status_to_region(e.a2_status),
                                         e.active_acc_loc)>> >>
     ELSE <<>>)

\* line 257: min(candidates, key=time) returns the first candidate of least time
MinCandidate(c) ==
    c[CHOOSE i \in 1..Len(c) :
         /\ \A j \in 1..Len(c) : c[i][2] <= c[j][2]
         /\ \A j \in 1..(i - 1) : c[j][2] > c[i][2]]

\* mutant: the dispatched ambulance is left busy
DispatchLeavesBusy(e) ==
    IF e.active_acc_loc = ACC_NONE
    THEN [env |-> e, time |-> 0, outcome |-> "no accident"]
    ELSE IF Candidates(e) = <<>>
    THEN [env |-> e, time |-> 600, outcome |-> "no free ambulance"]
    ELSE LET best == MinCandidate(Candidates(e))
         IN [env |-> [e EXCEPT
                        !.a1_status = IF best[1] = "A1" THEN A1_BUSY ELSE @,
                        !.a2_status = IF best[1] = "A2" THEN A2_BUSY ELSE @,
                        !.active_acc_loc = ACC_NONE,
                        !.active_severity = SEV_NONE,
                        !.last_response_time = best[2],
                        !.total_response_time = @ + best[2],
                        !.served_accidents = @ + 1,
                        !.critical_within_threshold =
                            IF e.active_severity = SEV_CRITICAL /\ best[2] <= 150
                            THEN @ + 1 ELSE @],
             time |-> best[2], outcome |-> "served"]

\* _dispatch_nearest (lines 233-297): the object it leaves, the time it
\* returns (tenths of a minute) and which of its three returns was taken
dispatch_nearest(e) ==
    IF e.active_acc_loc = ACC_NONE
    THEN [env |-> e, time |-> 0, outcome |-> "no accident"]
    ELSE IF Candidates(e) = <<>>
    THEN [env |-> e, time |-> 600, outcome |-> "no free ambulance"]
    ELSE LET best == MinCandidate(Candidates(e))
             acc_region == accident_location_to_region(e.active_acc_loc)
             end_region == IF acc_region \in {REGION_AIRPORT, REGION_RUPALI}
                           THEN REGION_H2 ELSE REGION_H1
         IN [env |-> [e EXCEPT
                        !.a1_status = IF best[1] = "A1"
                                      THEN (IF end_region = REGION_H1
                                            THEN A1_IDLE_H1 ELSE A1_IDLE_AIRPORT)
                                      ELSE @,
                        !.a2_status = IF best[1] = "A2"
                                      THEN (IF end_region = REGION_H2
                                            THEN A2_IDLE_H2 ELSE A2_IDLE_AIRPORT)
                                      ELSE @,
                        !.active_acc_loc = ACC_NONE,
                        !.active_severity = SEV_NONE,
                        !.last_response_time = best[2],
                        !.total_response_time = @ + best[2],
                        !.served_accidents = @ + 1,
                        !.critical_within_threshold =
                            IF e.active_severity = SEV_CRITICAL /\ best[2] <= 150
                            THEN @ + 1 ELSE @],
             time |-> best[2], outcome |-> "served"]

\* _apply_preposition (lines 421-433)
apply_preposition(e, a) ==
    IF a = ACT_PREPOSITION_STADIUM
    THEN IF e.a1_status = A1_IDLE_H1
         THEN [e EXCEPT !.a1_status = A1_IDLE_STADIUM]
         ELSE IF e.a2_status = A2_IDLE_H2
              THEN [e EXCEPT !.a2_status = A2_IDLE_RUPALI]
              ELSE e
    ELSE IF a = ACT_PREPOSITION_AIRPORT
    THEN IF e.a1_status \in {A1_IDLE_H1, A1_IDLE_STADIUM}
         THEN [e EXCEPT !.a1_status = A1_IDLE_AIRPORT]
         ELSE IF e.a2_status \in {A2_IDLE_H2, A2_IDLE_RUPALI}
              THEN [e EXCEPT !.a2_status = A2_IDLE_AIRPORT]
              ELSE e
    ELSE e

\* lines 439-449: the hotspots the update can leave
NextHotspots(e) ==
    IF e.active_acc_loc = ACC_JAYDEV THEN {HOTSPOT_STADIUM}
    ELSE IF e.active_acc_loc = ACC_RUPALI THEN {HOTSPOT_RUPALI}
    ELSE IF e.active_acc_loc = ACC_AIRPORT THEN {HOTSPOT_AIRPORT}
    ELSE {e.predicted_hotspot, HOTSPOT_NONE}

\* lines 453-456: the hospital loads the update can leave
NextLoads(e) ==
    IF e.hospital_load = HLOAD_H2_BUSY THEN {HLOAD_H2_BUSY, HLOAD_BOTH_OK}
    ELSE IF e.hospital_load = HLOAD_BOTH_OK THEN {HLOAD_BOTH_OK, HLOAD_H1_BUSY}
    ELSE {e.hospital_load}

\* _update_predictions (lines 435-456): the objects it can leave
update_predictions(e) ==
    {[e EXCEPT !.predicted_hotspot = h, !.hospital_load = l] :
        h \in NextHotspots(e), l \in NextLoads(e)}

\* step lines 361-401: the effect of the action argument on the object
ActionEffect(e, a) ==
    IF e.active_acc_loc # ACC_NONE
    THEN IF a = ACT_IMMEDIATE_DISPATCH THEN dispatch_nearest(e).env
         ELSE IF a \in {ACT_PREPOSITION_STADIUM, ACT_PREPOSITION_AIRPORT}
              THEN apply_preposition(e, a)
              ELSE e
    ELSE IF a \in {ACT_PREPOSITION_STADIUM, ACT_PREPOSITION_AIRPORT}
         THEN apply_preposition(e, a)
         ELSE e

\* the variables of the planner, which the environment does not touch
plannervars ==
    <<scenario, initial_state, actions, goals, max_levels, proposition_layers,
      action_layers, level, goal_layer_index, pc, chosen_actions, chosen_levels,
      current_goals, new_subgoals, todo, final_plan, plan, branch, executed,
      world>>

\* reset (lines 328-346)
Reset ==
    /\ pc = "env"
    /\ env' \in sample_new_accident_if_none(Constructed(env.max_steps))
    /\ before' = <<>>
    /\ action' = <<>>
    /\ UNCHANGED plannervars

\* step (lines 348-419), called while the episode is not done
Step ==
    /\ pc = "env"
    /\ env.time_step < env.max_steps
    /\ \E a \in 0..(N_ACTIONS - 1) :
          /\ action' = <<a>>
          /\ before' = <<env>>
          /\ \E predicted \in update_predictions(ActionEffect(env, a)) :
                env' \in sample_new_accident_if_none(
                            [predicted EXCEPT !.time_step = @ + 1])
    /\ UNCHANGED plannervars

\* an environment constructed with max_steps = MaxSteps, then reset and
\* stepped in any way
InitEnv ==
    /\ scenario = NoScenario
    /\ initial_state = {}
    /\ actions = <<>>
    /\ goals = {}
    /\ max_levels = DefaultMaxLevels
    /\ proposition_layers = <<>>
    /\ action_layers = <<>>
    /\ level = 0
    /\ goal_layer_index = 0
    /\ pc = "env"
    /\ chosen_actions = <<>>
    /\ chosen_levels = <<>>
    /\ current_goals = {}
    /\ new_subgoals = {}
    /\ todo = {}
    /\ final_plan = <<>>
    /\ NoPop
    /\ env = Constructed(MaxSteps)
    /\ before = <<>>
    /\ action = <<>>

NextEnv ==
    \/ Reset
    \/ Step

SpecEnv == InitEnv /\ [][NextEnv]_vars

(***************************************************************************)
(* Properties                                                              *)
(***************************************************************************)
RECURSIVE PlanExecutable(_, _)
\* forward simulation applying only add-effects: every action of the plan
\* finds its preconditions in the set accumulated so far
PlanExecutable(steps, S) ==
    IF steps = <<>> THEN TRUE
    ELSE /\ Head(steps).preconditions \subseteq S
         /\ PlanExecutable(Tail(steps), S \cup Head(steps).add_effects)

\* the set accumulated by the forward simulation
PlanResult(steps, S) == S \cup UNION {a.add_effects : a \in Range(steps)}

\* C1: when extract_linear_plan has returned on the graph, index and goals of
\* a successful build_plan_graph, the plan simulated forward from the initial
\* state (add-effects only) meets every action's preconditions and the
\* accumulated set contains the goals.
C1_LinearPlanSound ==
    pc = "done" =>
        /\ PlanExecutable(final_plan, initial_state)
        /\ goals \subseteq PlanResult(final_plan, initial_state)

\* C1 witness: a returned plan of two actions in which the second needs a
\* proposition that only the first supplies, reaching goals absent initially.
C1_Witness ==
    /\ pc = "done"
    /\ Len(final_plan) = 2
    /\ goal_layer_index = 2
    /\ ~(final_plan[2].preconditions \subseteq initial_state)
    /\ ~(goals \subseteq initial_state)

\* C2 as stated: no proposition layer below the returned index, layer 0
\* included, contains every goal.
C2_FirstLayerIncludingZero ==
    pc = "returned" =>
        \A i \in 0..(goal_layer_index - 1) : ~(goals \subseteq PL(i))

\* C2 amended: the returned index is at least 1, its layer contains every
\* goal and no layer with an index from 1 to the returned index minus one
\* does; layer 0 is never tested.
C2_FirstLayerFromOne ==
    pc = "returned" =>
        /\ goal_layer_index >= 1
        /\ goals \subseteq PL(goal_layer_index)
        /\ \A i \in 1..(goal_layer_index - 1) : ~(goals \subseteq PL(i))

\* C2 witness: a build that returns index 2, so that layer 1 was tested and
\* rejected.
C2_Witness ==
    /\ pc = "returned"
    /\ goal_layer_index = 2
    /\ ~(goals \subseteq PL(1))

\* some goal is neither in the initial state nor added by any action
UnreachableGoal ==
    \E g \in goals :
        /\ g \notin initial_state
        /\ \A i \in 1..Len(actions) : g \notin actions[i].add_effects

\* C3: with a goal that nothing adds, build_plan_graph never returns a graph,
\* never expands more than max_levels times, can always take its next step
\* until it raises, and raises after exactly max_levels expansions.
C3_UnreachableGoalRaises ==
    UnreachableGoal =>
        /\ pc # "returned"
        /\ Len(action_layers) <= max_levels
        /\ pc = "build" => /\ Len(action_layers) = level
                           /\ ENABLED NextGraph
        /\ pc = "error" => Len(action_layers) = max_levels

\* C3 witness: the error is raised after two expansions that did add
\* propositions, the goal still missing.
C3_Witness ==
    /\ UnreachableGoal
    /\ pc = "error"
    /\ max_levels = 2
    /\ Len(action_layers) = 2
    /\ PL(0) # PL(1)
    /\ PL(1) # PL(2)

\* C4: consecutive proposition layers only grow, at every step of the build.
C4_LayerMonotonic ==
    \A i \in 1..(Len(proposition_layers) - 1) :
        proposition_layers[i] \subseteq proposition_layers[i + 1]

\* C4 witness: two expansions, each adding propositions, the second made by
\* an applicable action that declares the deletion of everything.
C4_Witness ==
    /\ Len(proposition_layers) = 3
    /\ PL(0) # PL(1)
    /\ PL(1) # PL(2)
    /\ PL(1) # {}
    /\ \E a \in Range(AL(1)) : a.del_effects = Props /\ a.add_effects # {}

\* C5: action layer i holds exactly the input actions whose preconditions
\* are in proposition layer i, each once and in list order.
C5_ActionLayerExact ==
    \A i \in 1..Len(action_layers) :
        /\ Range(action_layers[i]) =
              {actions[j] : j \in {k \in 1..Len(actions) :
                    \A p \in actions[k].preconditions : p \in proposition_layers[i]}}
        /\ \A m, n \in 1..Len(action_layers[i]) :
              m < n => \E j, k \in 1..Len(actions) :
                          /\ j < k
                          /\ actions[j] = action_layers[i][m]
                          /\ actions[k] = action_layers[i][n]

\* C5 witness: after a layer has grown, its action layer leaves out an
\* action with a missing precondition (although another of its preconditions
\* is present) and includes the other action.
C5_Witness ==
    /\ Len(action_layers) >= 2
    /\ PL(0) # PL(1)
    /\ \E j, k \in 1..Len(actions) :
          /\ actions[j] \notin Range(AL(1))
          /\ actions[j].preconditions \cap PL(1) # {}
          /\ actions[k] \in Range(AL(1))

\* C6: every proposition layer is the previous one united with the
\* add-effects of the actions of the action layer between them, and a
\* proposition that such an action declares deleted stays in the layer.
C6_LayerRecurrence ==
    \A i \in 1..Len(action_layers) :
        /\ proposition_layers[i + 1] =
              proposition_layers[i]
                 \cup UNION {a.add_effects : a \in Range(action_layers[i])}
        /\ \A a \in Range(action_layers[i]) :
              (a.del_effects \cap proposition_layers[i])
                  \subseteq proposition_layers[i + 1]

\* C6 witness: an applicable action declares the deletion of a proposition
\* of its layer that no applicable action adds.
C6_Witness ==
    /\ Len(action_layers) >= 1
    /\ \E a \in Range(AL(0)) :
          \E p \in a.del_effects \cap PL(0) :
              \A b \in Range(AL(0)) : p \notin b.add_effects

\* C7: the returned plan holds no two actions with the same name.
C7_NoDuplicateActions ==
    pc = "done" =>
        \A i, j \in 1..Len(final_plan) :
            i # j => final_plan[i].name # final_plan[j].name

\* C7 witness: the working list named one action twice and the returned plan
\* still has two actions.
C7_Witness ==
    /\ pc = "done"
    /\ Len(chosen_actions) > Len(final_plan)
    /\ Len(final_plan) = 2

\* the names of the actions of the canonical plan
ReconName == "TriggerDroneRecon(ACC3)"
NotifyName == "NotifyHospital(H1)"
DeliverName == "DeliverPatientToH1(A1, ACC3, H1)"
RerouteName == "RerouteMidJourneyToH2(A1, ACC3, H2)"

PlanNames(steps) == {steps[i].name : i \in 1..Len(steps)}

H2Status ==
    LET h2 == FindById(scenario.hospitals, "H2")
    IN IF h2 = <<>> THEN "" ELSE h2[1].ct_status

\* C8: the plan returned for the canonical scenario ends with
\* DeliverPatientToH1(A1, ACC3, H1), whose add-effects contain
\* AccidentServed(ACC3) and PatientAt(ACC3, H1), whatever the order in which
\* the working goals were visited.
C8_EndsWithDelivery ==
    pc = "done" =>
        /\ Len(final_plan) >= 1
        /\ final_plan[Len(final_plan)].name = DeliverName
        /\ {"AccidentServed(ACC3)", "PatientAt(ACC3, H1)"}
              \subseteq final_plan[Len(final_plan)].add_effects

\* C8 witness: compute_strict_plan_for_acc3 (max_levels 8, H2's CT offline)
\* has returned its six-step plan.
C8_Witness ==
    /\ pc = "done"
    /\ scenario = create_base_scenario
    /\ max_levels = DefaultMaxLevels
    /\ Len(final_plan) = 6

\* C9: in the plan returned for the canonical scenario, TriggerDroneRecon(ACC3)
\* and NotifyHospital(H1) both occur, and each occurs before every delivery
\* action, whatever the order in which the working goals were visited.
C9_ReconAndNotifyBeforeDelivery ==
    pc = "done" =>
        /\ ReconName \in PlanNames(final_plan)
        /\ NotifyName \in PlanNames(final_plan)
        /\ \A i \in 1..Len(final_plan) :
              final_plan[i].name \in {DeliverName, RerouteName} =>
                  /\ \E j \in 1..(i - 1) : final_plan[j].name = ReconName
                  /\ \E j \in 1..(i - 1) : final_plan[j].name = NotifyName

\* C9 witness: a returned plan in which the notification is the last of the
\* four first-level actions and the reconnaissance the first.
C9_Witness ==
    /\ pc = "done"
    /\ Len(final_plan) = 6
    /\ final_plan[1].name = ReconName
    /\ final_plan[4].name = NotifyName
    /\ final_plan[6].name = DeliverName

\* C10: the plan returned for the canonical scenario never holds both
\* DeliverPatientToH1 and RerouteMidJourneyToH2: with H2's CT offline the
\* reroute is in no action layer, and with H2's CT available it is not chosen
\* although it is applicable.
C10_NotBothAlternatives ==
    /\ pc = "done" =>
          ~(DeliverName \in PlanNames(final_plan) /\ RerouteName \in PlanNames(final_plan))
    /\ H2Status = CT_OFFLINE =>
          \A i \in 1..Len(action_layers) : RerouteName \notin PlanNames(action_layers[i])

\* C10 witness: H2's CT is available, the delivery and the reroute are in the
\* same action layer, both add AccidentServed(ACC3), and the plan is returned.
C10_Witness ==
    /\ pc = "done"
    /\ H2Status = CT_AVAILABLE
    /\ \E a, b \in Range(AL(goal_layer_index - 1)) :
          /\ a.name = DeliverName
          /\ b.name = RerouteName
          /\ "AccidentServed(ACC3)" \in a.add_effects \cap b.add_effects

\* planning_domain.py Action semantics: (S minus del_effects) union add_effects
StripsApply(a, S) == (S \ a.del_effects) \cup a.add_effects

RECURSIVE StripsResult(_, _)
\* the state after executing the plan from S with deletes applied
StripsResult(steps, S) ==
    IF steps = <<>> THEN S ELSE StripsResult(Tail(steps), StripsApply(Head(steps), S))

RECURSIVE StripsExecutable(_, _)
\* every action of the plan finds its preconditions in the state it runs in
StripsExecutable(steps, S) ==
    IF steps = <<>> THEN TRUE
    ELSE /\ Head(steps).preconditions \subseteq S
         /\ StripsExecutable(Tail(steps), StripsApply(Head(steps), S))

PreDeployName == "PreDeployAmbulanceNearHotspot(A1, nayapalli_chowk)"

\* C11: the plan returned for the canonical scenario, executed from the
\* initial state with deletes applied, meets every action's preconditions and
\* ends in a state containing every goal, whatever order the extractor
\* emitted.
C11_StripsExecutableOnAcc3 ==
    pc = "done" =>
        /\ StripsExecutable(final_plan, initial_state)
        /\ goals \subseteq StripsResult(final_plan, initial_state)

\* C11 witness: a returned plan that starts with the pre-deployment, so that
\* AmbulanceAt(A1, hospital_h1) is deleted before the five other actions run.
C11_Witness ==
    /\ pc = "done"
    /\ Len(final_plan) = 6
    /\ final_plan[1].name = PreDeployName
    /\ "AmbulanceAt(A1, hospital_h1)" \in initial_state
    /\ "AmbulanceAt(A1, hospital_h1)" \notin StripsApply(final_plan[1], initial_state)

\* some object build_domain_for_acc3 looks up is absent from the snapshot
MissingObject ==
    \/ \A i \in 1..Len(scenario.hospitals) : scenario.hospitals[i].id # "H1"
    \/ \A i \in 1..Len(scenario.hospitals) : scenario.hospitals[i].id # "H2"
    \/ \A i \in 1..Len(scenario.ambulances) : scenario.ambulances[i].id # "A1"
    \/ \A i \in 1..Len(scenario.accidents) : scenario.accidents[i].id # "ACC3"

\* C17: with a referenced object missing, build_domain_for_acc3 can only end
\* in the error outcome, and no initial state, action list, goal set or graph
\* layer exists before or after it.
C17_MissingObjectNotFound ==
    MissingObject =>
        /\ pc \in {"domain", "notfound"}
        /\ pc = "domain" => ENABLED BuildDomain
        /\ initial_state = {}
        /\ actions = <<>>
        /\ goals = {}
        /\ proposition_layers = <<>>

\* C17 witness: only accident ACC3 is missing (ACC1 and ACC2 are there) and
\* the error outcome has been reached.
C17_Witness ==
    /\ pc = "notfound"
    /\ Len(scenario.hospitals) = 2
    /\ Len(scenario.ambulances) = 2
    /\ Len(scenario.accidents) = 2

(***************************************************************************)
(* Properties of the partial-order plan                                    *)
(***************************************************************************)

\* build_pop_plan_for_acc3 has returned a plan
PlanReturned == pc \in {"planned", "running", "finished"}

\* the ordering edges of a plan
Edges(p) == Range(p.orderings)

\* the direct successors of the ids of S
Successors(E, S) == {e[2] : e \in {f \in E : f[1] \in S}}

RECURSIVE ReachableFrom(_, _)
\* S and everything reachable from S along the edges E
ReachableFrom(E, S) ==
    LET T == S \cup Successors(E, S)
    IN IF T = S THEN S ELSE ReachableFrom(E, T)

\* there is a path of at least one edge from a to b
Path(E, a, b) == b \in ReachableFrom(E, Successors(E, {a}))

\* C12: the orderings of the returned plan, as a directed graph over action
\* ids, hold no cycle: no id reaches itself along one or more edges.
C12_PopAcyclic ==
    PlanReturned =>
        \A a \in ActionIds(plan.actions) \cup {e[1] : e \in Edges(plan)} :
            ~Path(Edges(plan), a, a)

\* C12 witness: a returned plan whose orderings chain Start, the drone
\* reconnaissance, the transport, the delivery and Finish.
C12_Witness ==
    /\ pc = "planned"
    /\ {<<"Start", "DroneRecon">>, <<"DroneRecon", "StartTransport">>,
        <<"StartTransport", "DeliverH1">>, <<"DeliverH1", "Finish">>}
          \subseteq Edges(plan)
    /\ Path(Edges(plan), "Start", "Finish")

\* C13: every causal link (producer, prop, consumer) of the returned plan has
\* prop among the producer's effects and among the consumer's preconditions,
\* and the consumer is reachable from the producer through the orderings.
C13_CausalLinksValid ==
    PlanReturned =>
        \A i \in 1..Len(plan.causal_links) :
            LET l == plan.causal_links[i]
            IN /\ l[1] \in ActionIds(plan.actions)
               /\ l[3] \in ActionIds(plan.actions)
               /\ l[2] \in ActionById(plan.actions, l[1]).effects
               /\ l[2] \in ActionById(plan.actions, l[3]).preconditions
               /\ Path(Edges(plan), l[1], l[3])

\* C13 witness: a returned plan with a link from Start and a link between two
\* wrapped actions found by a substring test.
C13_Witness ==
    /\ pc = "planned"
    /\ \E i, j \in 1..Len(plan.causal_links) :
          /\ plan.causal_links[i][1] = "Start"
          /\ plan.causal_links[j] =
                <<"StartTransport", "AmbulanceEnRoute(A1, ACC3)", "RerouteH2">>

\* C15: no action id is named by two different branches of the returned plan.
C15_BranchesDisjoint ==
    PlanReturned =>
        \A i, j \in 1..Len(plan.branches) :
            i # j => Range(plan.branches[i].actions)
                        \cap Range(plan.branches[j].actions) = {}

\* C15 witness: a returned plan with two branches, each naming an action.
C15_Witness ==
    /\ pc = "planned"
    /\ Len(plan.branches) = 2
    /\ plan.branches[1].actions # <<>>
    /\ plan.branches[2].actions # <<>>

\* C16: in the returned plan Start has no incoming ordering edge, no
\* precondition and the domain's initial state as effects; Finish has no
\* outgoing ordering edge and the domain's goal set as preconditions.
C16_StartFinishShape ==
    PlanReturned =>
        LET d == build_domain_for_acc3(scenario)[1]
            start == ActionById(plan.actions, "Start")
            finish == ActionById(plan.actions, "Finish")
        IN /\ \A e \in Edges(plan) : e[2] # "Start" /\ e[1] # "Finish"
           /\ start.preconditions = {}
           /\ start.effects = d.initial_state
           /\ finish.preconditions = d.goal_state

\* C16 witness: a returned plan in which Start has outgoing edges, Finish has
\* incoming edges, and neither the initial state nor the goal set is empty.
C16_Witness ==
    /\ pc = "planned"
    /\ \E e \in Edges(plan) : e[1] = "Start"
    /\ \E e \in Edges(plan) : e[2] = "Finish"
    /\ ActionById(plan.actions, "Start").effects # {}
    /\ ActionById(plan.actions, "Finish").preconditions # {}

\* the branch taken is the one whose condition is cond
BranchTaken(cond) ==
    /\ branch \in DOMAIN plan.branches
    /\ plan.branches[branch].condition = cond

\* the position at which id a ran (0: it has not run)
RanAt(a) ==
    IF a \in Range(executed)
    THEN CHOOSE i \in 1..Len(executed) : executed[i] = a
    ELSE 0

\* C14: on the CTOffline(H2) branch (RerouteH2 left out), after any prefix of
\* any total order consistent with the orderings, every action the orderings
\* allow to run next finds its preconditions true under add/delete semantics,
\* some action can run until Finish has run, and when Finish has run every
\* remaining action has run and Finish's preconditions hold.
C14_LinearizationsExecutable ==
    (pc \in {"running", "finished"} /\ BranchTaken("CTOffline(H2)")) =>
        /\ \A a \in ActionIds(plan.actions) :
              Ready(a) => ActionById(plan.actions, a).preconditions \subseteq world
        /\ pc = "running" => \E a \in ActionIds(plan.actions) : Ready(a)
        /\ pc = "finished" =>
              /\ Range(executed) = Active(plan, branch)
              /\ Len(executed) = Cardinality(Active(plan, branch))
              /\ ActionById(plan.actions, "Finish").preconditions \subseteq world

\* C14 witness: the CTOffline(H2) branch has run to Finish without RerouteH2
\* in an order that puts the notification, which has no ordering path to or
\* from the transport, after the transport.
C14_Witness ==
    /\ pc = "finished"
    /\ BranchTaken("CTOffline(H2)")
    /\ "RerouteH2" \notin Range(executed)
    /\ executed[1] = "Start"
    /\ RanAt("StartTransport") < RanAt("NotifyH1")
    /\ ~Path(Edges(plan), "NotifyH1", "StartTransport")
    /\ ~Path(Edges(plan), "StartTransport", "NotifyH1")

\* the causal links recorded in a plan
Links(p) == Range(p.causal_links)

\* C18: in the returned plan, whenever an action ordered before action A
\* (Start included) has a precondition p of A among its effects, the causal
\* link (that producer, p, A) is recorded.
C18_CausalLinksComplete ==
    PlanReturned =>
        \A A, B \in ActionIds(plan.actions) :
            \A p \in ActionById(plan.actions, A).preconditions :
                (Path(Edges(plan), B, A) /\ p \in ActionById(plan.actions, B).effects)
                    => <<B, p, A>> \in Links(plan)

(***************************************************************************)
(* Properties of the extraction loop                                       *)
(***************************************************************************)

\* the for loop of the current level will skip g without a supporter:
\* g is not in the previous proposition layer and no action of the previous
\* action layer adds it (graphplan.py lines 83-93)
SilentlySkipped(g) ==
    /\ pc = "extract"
    /\ level > 0
    /\ g \in todo
    /\ g \notin PL(level - 1)
    /\ Supporter(AL(level - 1), g) = <<>>

\* C19: a working goal that is skipped without a supporter at some level is
\* in the initial state or in a proposition layer below that level.
C19_SkippedGoalCarriedForward ==
    \A g \in todo :
        SilentlySkipped(g) =>
            \/ g \in initial_state
            \/ \E k \in 0..(level - 1) : g \in PL(k)

RECURSIVE VisitLevel(_, _, _, _)
\* the for loop of lines 81-97 at level lvl over the goals still to visit,
\* visiting them in one fixed order; yields the working list and the subgoals
VisitLevel(lvl, remaining, chosen, subgoals) ==
    IF remaining = {} THEN [chosen |-> chosen, subgoals |-> subgoals]
    ELSE LET g == CHOOSE x \in remaining : TRUE
             supporter == Supporter(AL(lvl - 1), g)
         IN IF g \in PL(lvl - 1) \/ supporter = <<>>
            THEN VisitLevel(lvl, remaining \ {g}, chosen, subgoals)
            ELSE VisitLevel(lvl, remaining \ {g}, chosen \o supporter,
                            NewSubgoals(subgoals, supporter[1]))

RECURSIVE ExtractFrom(_, _, _)
\* lines 77-110 from level lvl down, each level visited in that fixed order
ExtractFrom(lvl, cur, chosen) ==
    IF lvl = 0 THEN FinalPlan(chosen)
    ELSE LET r == VisitLevel(lvl, cur, chosen, {})
         IN ExtractFrom(lvl - 1, cur \cup r.subgoals, r.chosen)

\* the list one run of extract_linear_plan returns on the current graph,
\* goal-layer index and goal set
ReferencePlan == ExtractFrom(goal_layer_index, goals, <<>>)

\* C20: extract_linear_plan returns the same action sequence whatever order
\* the working goal set is iterated in: every run on the same graph, index
\* and goals returns the sequence that the fixed-order run returns.
C20_ExtractionDeterministic ==
    pc = "done" => final_plan = ReferencePlan

\* the positions of s whose action name occurs at no earlier position
FirstPositions(s) ==
    {i \in 1..Len(s) : \A j \in 1..(i - 1) : s[j].name # s[i].name}

\* s restricted to its first positions, in the order of s
KeptAtFirstPosition(s) ==
    LET K == FirstPositions(s)
    IN [i \in 1..Cardinality(K) |->
           s[CHOOSE k \in K : Cardinality({m \in K : m <= k}) = i]]

\* the position of the action called name in the returned list (0: absent)
PlanPosition(name) ==
    IF \E i \in 1..Len(final_plan) : final_plan[i].name = name
    THEN CHOOSE i \in 1..Len(final_plan) : final_plan[i].name = name
    ELSE 0

\* C21: the returned list is the reversed working list with each action name
\* kept only at its first position; an action selected as a supporter at a
\* lower level precedes every action selected at a higher level; and the
\* returned actions are exactly the selected supporters.
C21_ForwardOrderAndDedup ==
    pc = "done" =>
        /\ final_plan = KeptAtFirstPosition(Reverse(chosen_actions))
        /\ \A i, j \in 1..Len(chosen_actions) :
              chosen_levels[i] < chosen_levels[j] =>
                 /\ PlanPosition(chosen_actions[i].name) > 0
                 /\ PlanPosition(chosen_actions[i].name)
                       < PlanPosition(chosen_actions[j].name)
        /\ Range(final_plan) = Range(chosen_actions)

\* C21 witness: supporters were selected at two levels, one action more than
\* once, and the returned list has dropped the repetition.
C21_Witness ==
    /\ pc = "done"
    /\ \E i, j \in 1..Len(chosen_levels) : chosen_levels[i] # chosen_levels[j]
    /\ \E i, j \in 1..Len(chosen_actions) :
          i # j /\ chosen_actions[i] = chosen_actions[j]
    /\ Len(final_plan) < Len(chosen_actions)
    /\ Len(final_plan) >= 2

RECURSIVE RefLayer(_)
\* the propositions reachable from the initial state by i rounds of applying
\* every applicable action's add effects
RefLayer(i) ==
    IF i = 0 THEN initial_state
    ELSE LET below == RefLayer(i - 1)
         IN below \cup
            UNION {a.add_effects :
                      a \in {b \in Range(actions) : b.preconditions \subseteq below}}

\* the expansion counts from 1 to n after which the goals are covered
CoveringCounts(n) == {i \in 1..n : goals \subseteq RefLayer(i)}

\* the least of them: the k of the level-budget threshold
LeastCount(n) == CHOOSE k \in CoveringCounts(n) : \A i \in CoveringCounts(n) : k <= i

\* the inputs are the canonical ACC3 domain
CanonicalDomain ==
    /\ scenario # NoScenario
    /\ build_domain_for_acc3(scenario) # <<>>
    /\ initial_state = build_domain_for_acc3(scenario)[1].initial_state
    /\ actions = build_domain_for_acc3(scenario)[1].actions
    /\ goals = build_domain_for_acc3(scenario)[1].goal_state

\* C22: with k the least expansion count (at least 1) after which the goals
\* are covered, build_plan_graph raises only when max_levels is below k (or
\* no k exists), returns only when max_levels is at least k, always with
\* index k and with layers that depend on the domain only; it always ends;
\* and k = 3 on the canonical ACC3 domain.
C22_LevelBudgetThreshold ==
    /\ pc = "error" => CoveringCounts(max_levels) = {}
    /\ pc = "returned" =>
          /\ CoveringCounts(max_levels) # {}
          /\ goal_layer_index = LeastCount(max_levels)
          /\ proposition_layers = [i \in 1..(goal_layer_index + 1) |-> RefLayer(i - 1)]
          /\ action_layers =
                [i \in 1..goal_layer_index |->
                    SelectSeq(actions, LAMBDA a : a.preconditions \subseteq RefLayer(i - 1))]
    /\ pc = "build" => ENABLED NextGraph
    /\ pc \in {"build", "error", "returned"}
    /\ CanonicalDomain =>
          /\ CoveringCounts(DefaultMaxLevels) # {}
          /\ LeastCount(DefaultMaxLevels) = 3
          /\ pc = "returned" => max_levels >= 3 /\ goal_layer_index = 3
          /\ pc = "error" => max_levels < 3

\* C22 witness: on the canonical ACC3 domain a budget above the threshold
\* returns the threshold index.
C22_Witness ==
    /\ CanonicalDomain
    /\ pc = "returned"
    /\ max_levels > goal_layer_index
    /\ goal_layer_index = 3

\* neither a path from a to b nor one from b to a
Unordered(E, a, b) == ~Path(E, a, b) /\ ~Path(E, b, a)

\* C23: in the transitive closure of the returned plan's orderings,
\* DroneRecon, PredeployA1 and RequestDiversion are pairwise unordered,
\* DeliverH1 and RerouteH2 are unordered with respect to each other, and each
\* of DeliverH1 and RerouteH2 is ordered after StartTransport.
C23_PartialOrderShape ==
    PlanReturned =>
        /\ Unordered(Edges(plan), "DroneRecon", "PredeployA1")
        /\ Unordered(Edges(plan), "DroneRecon", "RequestDiversion")
        /\ Unordered(Edges(plan), "PredeployA1", "RequestDiversion")
        /\ Unordered(Edges(plan), "DeliverH1", "RerouteH2")
        /\ Path(Edges(plan), "StartTransport", "DeliverH1")
        /\ Path(Edges(plan), "StartTransport", "RerouteH2")
        /\ ~Path(Edges(plan), "DeliverH1", "StartTransport")
        /\ ~Path(Edges(plan), "RerouteH2", "StartTransport")

\* C23 witness: a returned plan holding the five actions, in which the three
\* preparatory actions share a successor and the two deliveries share a
\* predecessor and a successor.
C23_Witness ==
    /\ pc = "planned"
    /\ {"DroneRecon", "PredeployA1", "RequestDiversion", "DeliverH1", "RerouteH2"}
          \subseteq ActionIds(plan.actions)
    /\ \A a \in {"DroneRecon", "PredeployA1", "RequestDiversion"} :
          <<a, "StartTransport">> \in Edges(plan)
    /\ \A a \in {"DeliverH1", "RerouteH2"} :
          <<"StartTransport", a>> \in Edges(plan) /\ <<a, "Finish">> \in Edges(plan)

\* the ids that can come next in a total order consistent with the edges E
\* once the ids of done have been placed
NextInOrder(E, ids, done) ==
    {a \in ids \ done : \A e \in E : e[2] = a => e[1] \in done}

RECURSIVE EveryOrderStartsAndEnds(_, _, _)
\* every total order of ids consistent with E that extends a placement of
\* done puts Start at the first position and Finish at the last
EveryOrderStartsAndEnds(E, ids, done) ==
    \A a \in NextInOrder(E, ids, done) :
        /\ done = {} => a = "Start"
        /\ a = "Finish" => done \cup {a} = ids
        /\ EveryOrderStartsAndEnds(E, ids, done \cup {a})

\* C24: in the returned plan's orderings there is a path from Start to every
\* other action and from every other action to Finish; so every total order
\* of the actions consistent with the orderings has Start first and Finish
\* last (the orders are enumerated when the plan is returned; the plan does
\* not change afterwards).
C24_StartFirstFinishLast ==
    PlanReturned =>
        /\ \A a \in ActionIds(plan.actions) \ {"Start"} :
              Path(Edges(plan), "Start", a)
        /\ \A a \in ActionIds(plan.actions) \ {"Finish"} :
              Path(Edges(plan), a, "Finish")
        /\ pc = "planned" =>
              /\ NextInOrder(Edges(plan), ActionIds(plan.actions), {}) # {}
              /\ EveryOrderStartsAndEnds(Edges(plan), ActionIds(plan.actions), {})

\* C24 witness: a returned plan in which an action reaches Finish only
\* through another action, and Start has an edge to each of the others.
C24_Witness ==
    /\ pc = "planned"
    /\ <<"NotifyH1", "Finish">> \notin Edges(plan)
    /\ Path(Edges(plan), "NotifyH1", "Finish")
    /\ \A a \in ActionIds(plan.actions) \ {"Start"} : <<"Start", a>> \in Edges(plan)

(***************************************************************************)
(* Properties of the domain builder                                        *)
(***************************************************************************)

\* build_domain_for_acc3 has returned a domain for the snapshot
DomainBuilt == pc \notin {"domain", "notfound"} /\ scenario # NoScenario

\* the CT fact that matches a hospital's ct_status
CTFact(h) ==
    IF h.ct_status = CT_OFFLINE THEN P1("CTOffline", h.id)
                                ELSE P1("CTAvailable", h.id)

\* C25: the initial state returned by build_domain_for_acc3 holds a
\* Hospital(id) fact and the matching CT fact for every hospital of the
\* snapshot, an availability or location fact for every ambulance, and the
\* reported, risk and unserved facts for every accident.
C25_InitialStateTotal ==
    DomainBuilt =>
        /\ \A i \in 1..Len(scenario.hospitals) :
              /\ P1("Hospital", scenario.hospitals[i].id) \in initial_state
              /\ CTFact(scenario.hospitals[i]) \in initial_state
        /\ \A i \in 1..Len(scenario.ambulances) :
              \/ P1("AmbulanceFree", scenario.ambulances[i].id) \in initial_state
              \/ P2("AmbulanceAt", scenario.ambulances[i].id,
                    scenario.ambulances[i].current_node) \in initial_state
        /\ \A i \in 1..Len(scenario.accidents) :
              /\ P1("AccidentReported", scenario.accidents[i].id) \in initial_state
              /\ P1("AccidentHighRisk", scenario.accidents[i].id) \in initial_state
              /\ P1("AccidentNotServed", scenario.accidents[i].id) \in initial_state

\* the conditions of the branches of a plan
BranchConditions(p) == {p.branches[i].condition : i \in 1..Len(p.branches)}

\* C26: the returned plan has exactly two branches, with the conditions
\* CTAvailable(H2) and CTOffline(H2), and for either CT status of H2 exactly
\* one of the two propositions is among Start's effects.
C26_BranchConditionsComplementary ==
    PlanReturned =>
        /\ Len(plan.branches) = 2
        /\ BranchConditions(plan) = {"CTAvailable(H2)", "CTOffline(H2)"}
        /\ Cardinality(BranchConditions(plan)
                          \cap ActionById(plan.actions, "Start").effects) = 1
        /\ H2Status = CT_OFFLINE =>
              "CTOffline(H2)" \in ActionById(plan.actions, "Start").effects
        /\ H2Status = CT_AVAILABLE =>
              "CTAvailable(H2)" \in ActionById(plan.actions, "Start").effects

\* C26 witness: a plan returned for a snapshot in which H2's CT is available,
\* so that the condition of the first branch is the one Start provides.
C26_Witness ==
    /\ pc = "planned"
    /\ H2Status = CT_AVAILABLE
    /\ plan.branches[1].condition \in ActionById(plan.actions, "Start").effects
    /\ plan.branches[2].condition \notin ActionById(plan.actions, "Start").effects

\* the branch taken is one whose condition Start provides, and every action
\* to run on it except Finish has run
BranchRunUpToFinish ==
    /\ pc = "running"
    /\ branch \in DOMAIN plan.branches
    /\ plan.branches[branch].condition \in ActionById(plan.actions, "Start").effects
    /\ Range(executed) = Active(plan, branch) \ {"Finish"}

\* C27: on each branch taken under its condition, once Start, the preparatory
\* actions, StartTransport and the branch's action have run in an order
\* consistent with the orderings, the other branch's action left out, the
\* state holds every precondition of Finish.
C27_EveryBranchReachesFinish ==
    BranchRunUpToFinish =>
        ActionById(plan.actions, "Finish").preconditions \subseteq world

\* C28: while build_plan_graph runs and in the graph it returns there is one
\* proposition layer more than there are action layers, and one expansion
\* per completed iteration; on success the returned index is the number of
\* action layers, the index of the last proposition layer, and lies between
\* 1 and max_levels.
C28_GraphShape ==
    /\ Len(proposition_layers) = Len(action_layers) + 1
    /\ pc = "build" => Len(action_layers) = level
    /\ pc = "returned" =>
          /\ goal_layer_index = Len(action_layers)
          /\ goal_layer_index = Len(proposition_layers) - 1
          /\ 1 <= goal_layer_index
          /\ goal_layer_index <= max_levels

\* C28 witness: a build that succeeds in its last allowed iteration, after
\* more than one.
C28_Witness ==
    /\ pc = "returned"
    /\ max_levels >= 2
    /\ goal_layer_index = max_levels
    /\ Len(action_layers) = max_levels

(***************************************************************************)
(* C29: after reset and after every step of EmergencyResponseEnv,          *)
(* active_acc_loc is ACC_NONE exactly when active_severity is SEV_NONE;    *)
(* and when a step was called with an accident active and did not dispatch *)
(* it, the same accident (location and severity) is still the active one   *)
(* after the step and no accident was counted: a new accident is sampled   *)
(* only when none is active.                                               *)
(***************************************************************************)
AccidentKept ==
    /\ env.active_acc_loc = before[1].active_acc_loc
    /\ env.active_severity = before[1].active_severity
    /\ env.critical_total = before[1].critical_total

C29_SingleActiveAccident ==
    pc = "env" =>
        /\ (env.active_acc_loc = ACC_NONE) <=> (env.active_severity = SEV_NONE)
        /\ (/\ action # <<>>
            /\ before[1].active_acc_loc # ACC_NONE
            /\ action[1] # ACT_IMMEDIATE_DISPATCH) => AccidentKept

\* an accident that was left undispatched by two steps in a row, the last of
\* them a pre-positioning, is still the active one
C29_Witness ==
    /\ pc = "env"
    /\ action = <<ACT_PREPOSITION_STADIUM>>
    /\ before[1].active_acc_loc = ACC_RUPALI
    /\ before[1].active_severity = SEV_CRITICAL
    /\ before[1].time_step >= 1
    /\ before[1].critical_total = 1
    /\ env.active_acc_loc = ACC_RUPALI
    /\ env.active_severity = SEV_CRITICAL

(***************************************************************************)
(* C30: in every state reached by reset and any sequence of steps, neither *)
(* a1_status nor a2_status is BUSY; _dispatch_nearest never takes its      *)
(* 'no free ambulance' return; and a step with ACT_IMMEDIATE_DISPATCH      *)
(* called while an accident was active found an idle ambulance, cleared    *)
(* that accident and increased served_accidents by exactly one.            *)
(***************************************************************************)
DispatchServed ==
    LET d == dispatch_nearest(before[1])
    IN /\ d.outcome = "served"
       /\ d.env.active_acc_loc = ACC_NONE
       /\ d.env.active_severity = SEV_NONE
       /\ env.served_accidents = before[1].served_accidents + 1
       /\ env.last_response_time = d.time
       /\ env.last_response_time # 600

C30_AmbulancesNeverStayBusy ==
    pc = "env" =>
        /\ env.a1_status # A1_BUSY
        /\ env.a2_status # A2_BUSY
        /\ dispatch_nearest(env).outcome # "no free ambulance"
        /\ (/\ action = <<ACT_IMMEDIATE_DISPATCH>>
            /\ before[1].active_acc_loc # ACC_NONE) => DispatchServed

\* a second accident in a row dispatched at once
C30_Witness ==
    /\ pc = "env"
    /\ action = <<ACT_IMMEDIATE_DISPATCH>>
    /\ before[1].active_acc_loc # ACC_NONE
    /\ before[1].served_accidents = 1
    /\ env.served_accidents = 2

====
